---- MODULE Spec2Model ----
(***************************************************************************)
(* Tungsten compiler front end (src/src/__main__.py): Lexer, Scope,        *)
(* Emitter and Parser, modelled as a state machine.                        *)
(*                                                                         *)
(* Text is modelled as it is in the program: a string is a sequence of     *)
(* one-character strings, so that concatenation, formatting and scanning   *)
(* are computed character by character.                                    *)
(*                                                                         *)
(* Spec      : the parser consuming a source text that is revealed one     *)
(*             statement at a time; every token is produced by the lexer   *)
(*             model from the characters of that text.                     *)
(* SpecLex   : the lexer alone, on every short text over LexAlphabet.      *)
(* SpecBlocks: the parser on programs made of braces only.                 *)
(***************************************************************************)
EXTENDS Integers, Sequences, FiniteSets, TLC

VARIABLES
    code,       \* Lexer.code: the source text read so far
    lexer,      \* Lexer fields: index, buffer, line_num, line_offset, line_change
    cur,        \* Parser._cur: the last token handed to the parser
    scopes,     \* Parser.scope and its parent chain, root first, current last
    sigs,       \* every FunctionSignature object created, in creation order
    signature,  \* Parser.signature: index into sigs, 0 for None
    bodies,     \* per signature: "declared", "open" or "closed" (its body scope)
    emitter,    \* Emitter: the three streams, as the chunks appended to them
    status,     \* where Parser.parse is: "running", "accepted" or how it ended
    target,     \* the token the diagnostic of Parser.error points at
    created,    \* number of Scope objects constructed after the root
    stmt        \* the statement whose text was appended by the last step

vars == <<code, lexer, cur, scopes, sigs, signature, bodies, emitter, status, target,
          created, stmt>>

(***************************************************************************)
(* Bounds                                                                  *)
(***************************************************************************)
MaxStmts == 4
MaxCodeLen == 5
MaxBlockStmts == 23
MaxDepth == 2

(***************************************************************************)
(* Characters                                                              *)
(***************************************************************************)
Digits == {"0", "1", "2", "3", "4", "5", "6", "7", "8", "9"}
Lower == {"a", "b", "c", "d", "e", "f", "g", "h", "i", "j", "k", "l", "m",
          "n", "o", "p", "q", "r", "s", "t", "u", "v", "w", "x", "y", "z"}
Upper == {"A", "B", "C", "D", "E", "F", "G", "H", "I", "J", "K", "L", "M",
          "N", "O", "P", "Q", "R", "S", "T", "U", "V", "W", "X", "Y", "Z"}
Punct == {"+", "*", "-", "/", "%", "(", ")", "{", "}", ";", ",", "=", "_",
          "#", " ", "\t", "\n", "\""}
Chars == Digits \cup Lower \cup Upper \cup Punct

isdecimal(c) == c \in Digits
isalnum(c) == c \in Digits \cup Lower \cup Upper

\* str.isdecimal() of a whole string: non-empty and all decimal digits
str_isdecimal(s) == s # <<>> /\ \A i \in 1..Len(s) : isdecimal(s[i])

HexLower == <<"0", "1", "2", "3", "4", "5", "6", "7", "8", "9", "a", "b", "c", "d", "e", "f">>
HexUpper == <<"0", "1", "2", "3", "4", "5", "6", "7", "8", "9", "A", "B", "C", "D", "E", "F">>

\* value of one digit character, -1 when it is no digit of any radix up to 16
DigitVal(c) ==
    IF \E i \in 1..16 : HexLower[i] = c THEN (CHOOSE i \in 1..16 : HexLower[i] = c) - 1
    ELSE IF \E i \in 1..16 : HexUpper[i] = c THEN (CHOOSE i \in 1..16 : HexUpper[i] = c) - 1
    ELSE -1

\* int(s, base) raises ValueError: empty text or a digit outside the radix
int_fails(s, base) ==
    s = <<>> \/ \E i \in 1..Len(s) : DigitVal(s[i]) < 0 \/ DigitVal(s[i]) >= base

RECURSIVE int_of(_, _)
\* int(s, base) for a text on which it does not raise
int_of(s, base) ==
    IF s = <<>> THEN 0
    ELSE int_of(SubSeq(s, 1, Len(s) - 1), base) * base + DigitVal(s[Len(s)])

RECURSIVE Decimal(_)
\* str(n) for n >= 0: the decimal digits of n
Decimal(n) ==
    IF n < 10 THEN <<HexLower[n + 1]>>
    ELSE Append(Decimal(n \div 10), HexLower[(n % 10) + 1])

(***************************************************************************)
(* Tokens                                                                  *)
(***************************************************************************)
TokenKind == {"EOL", "EOF", "BYTE", "INT16", "LPAREN", "RPAREN", "IDENTIFIER",
              "STRING", "PLUS", "MINUS", "TIMES", "DIVIDE", "MODULO", "LSCOPE",
              "RSCOPE", "FUNCTION", "WHILE", "IF", "EQUALS", "RETURN",
              "SEMICOLON", "BUFFER", "TYPE", "CONST", "ASM", "COMMA", "NORET"}

\* Token(kind, value, lnum, length, offset).  The value of a token is kept in
\* two fields: value is the number of a BYTE/INT16 token (-1 otherwise), text
\* the string of an IDENTIFIER/STRING/TYPE token (empty otherwise).
Token(kind, value, text, lnum, length, offset) ==
    [kind |-> kind, value |-> value, text |-> text,
     lnum |-> lnum, length |-> length, offset |-> offset]

\* what the parser holds when the lexer returned no token (Python None), and
\* the pseudo token that stands for Lexer.error having ended the process
NoToken == Token("None", -1, <<>>, 0, 0, 0)
SyntaxError == Token("SYNTAX_ERROR", -1, <<>>, 0, 0, 0)

(***************************************************************************)
(* Lexer                                                                   *)
(***************************************************************************)
LexerInit == [index |-> 0, buffer |-> <<>>, line_num |-> 0,
              line_offset |-> 0, line_change |-> 0]

token(L, kind, value, text) ==
    Token(kind, value, text, L.line_num, L.line_change, L.line_offset)

current(c, L) == IF L.index >= Len(c) THEN "" ELSE c[L.index + 1]

advance(L, qty) ==
    [L EXCEPT !.index = @ + qty, !.line_change = @ + qty]

clear_buffer(L) == [L EXCEPT !.buffer = <<>>, !.line_change = 0]

token_grabbed(L) == L.buffer # <<>>

RECURSIVE scan(_, _, _, _)
\* the loops `while current() in chars: [buffer += current();] advance()`
scan(c, L, chars, buffered) ==
    IF current(c, L) \in chars
    THEN scan(c, advance([L EXCEPT !.buffer =
                              IF buffered THEN Append(@, current(c, L)) ELSE @], 1),
              chars, buffered)
    ELSE L

RECURSIVE skip_blanks(_, _)
\* `while current() == " " or current() == "\t": advance(); clear_buffer()`
skip_blanks(c, L) ==
    IF current(c, L) \in {" ", "\t"}
    THEN skip_blanks(c, clear_buffer(advance(L, 1)))
    ELSE L

basic == ("+" :> "PLUS") @@ ("*" :> "TIMES") @@ ("-" :> "MINUS") @@
         ("/" :> "DIVIDE") @@ ("%" :> "MODULO") @@ ("(" :> "LPAREN") @@
         (")" :> "RPAREN") @@ ("{" :> "LSCOPE") @@ ("}" :> "RSCOPE") @@
         (";" :> "SEMICOLON") @@ ("," :> "COMMA")

ByteLimit == 255

\* `TokenKind.BYTE if value <= 255 else TokenKind.INT16`
number_kind(value) == IF value <= ByteLimit THEN "BYTE" ELSE "INT16"

\* the `0x` / `0b` branch after the prefix: digits are in the buffer of L
radix_literal(L, base) ==
    IF int_fails(L.buffer, base)
    THEN [lex |-> L, tok |-> SyntaxError]
    ELSE [lex |-> L,
          tok |-> token(L, number_kind(int_of(L.buffer, base)), int_of(L.buffer, base), <<>>)]

\* Lexer._next_by_sym: a token, or NoToken where the method returns None
_next_by_sym(c, L) ==
    LET ch == current(c, L) IN
    IF ch \in DOMAIN basic
    THEN [lex |-> advance(L, 1), tok |-> token(advance(L, 1), basic[ch], -1, <<>>)]
    ELSE IF ch = "0"
    THEN LET L1 == advance(L, 1) IN
         IF current(c, L1) = "x"
         THEN radix_literal(scan(c, advance(L1, 1), Digits \cup Lower \cup Upper, TRUE), 16)
         ELSE IF current(c, L1) = "b"
         THEN radix_literal(scan(c, advance(L1, 1), {"0", "1"}, TRUE), 2)
         ELSE [lex |-> L1, tok |-> NoToken]
    ELSE IF ch = "\""
    THEN LET L1 == scan(c, advance(L, 1), Chars \ {"\"", "\n"}, TRUE) IN
         IF current(c, L1) = "\""
         THEN [lex |-> advance(L1, 1), tok |-> token(advance(L1, 1), "STRING", -1, L1.buffer)]
         ELSE [lex |-> L1, tok |-> SyntaxError]
    ELSE IF ch = "\n"
    THEN LET L1 == [advance([L EXCEPT !.line_num = @ + 1, !.line_offset = 0], 1)
                        EXCEPT !.line_change = 0] IN
         [lex |-> L1, tok |-> token(L1, "EOL", -1, <<>>)]
    ELSE IF ch = "#"
    THEN LET L1 == scan(c, L, Chars \ {"\n"}, FALSE) IN
         [lex |-> L1, tok |-> token(L1, "EOL", -1, <<>>)]
    ELSE [lex |-> L, tok |-> NoToken]

\* the `match (self.buffer)` of Lexer._next
word_token(L) ==
    LET b == L.buffer IN
    IF b = <<"f", "n">> THEN token(L, "FUNCTION", -1, <<>>)
    ELSE IF b = <<"w", "h", "i", "l", "e">> THEN token(L, "WHILE", -1, <<>>)
    ELSE IF b = <<"i", "f">> THEN token(L, "IF", -1, <<>>)
    ELSE IF b = <<"r", "e", "t">> THEN token(L, "RETURN", -1, <<>>)
    ELSE IF b = <<"b", "u", "f">> THEN token(L, "BUFFER", -1, <<>>)
    ELSE IF b = <<"c", "o", "n", "s", "t">> THEN token(L, "CONST", -1, <<>>)
    ELSE IF b \in {<<"v", "o", "i", "d">>, <<"b", "y", "t", "e">>,
                   <<"i", "n", "t">>, <<"p", "t", "r">>}
         THEN token(L, "TYPE", -1, b)
    ELSE IF b = <<"a", "s", "m">> THEN token(L, "ASM", -1, <<>>)
    ELSE IF b = <<"n", "o", "r", "e", "t">> THEN token(L, "NORET", -1, <<>>)
    ELSE token(L, "IDENTIFIER", -1, b)

\* the end of Lexer._next: the token made of the buffer, or None (no return)
buffer_token(L) ==
    IF token_grabbed(L)
    THEN IF str_isdecimal(L.buffer)
         THEN [lex |-> L,
               tok |-> token(L, number_kind(int_of(L.buffer, 10)), int_of(L.buffer, 10), <<>>)]
         ELSE [lex |-> L, tok |-> word_token(L)]
    ELSE [lex |-> L, tok |-> NoToken]

\* `if not self.token_grabbed(): while isalnum or "_"` of Lexer._next
grab_word(c, L) ==
    buffer_token(IF ~token_grabbed(L)
                 THEN scan(c, L, Digits \cup Lower \cup Upper \cup {"_"}, TRUE)
                 ELSE L)

\* Lexer._next after the call of _next_by_sym
after_by_sym(c, by_sym) ==
    IF by_sym.tok.kind # "None" THEN by_sym
    ELSE grab_word(c, scan(c, by_sym.lex, Digits, TRUE))

\* Lexer._next
_next(c, L) ==
    IF L.index >= Len(c)
    THEN [lex |-> L, tok |-> token(L, "EOF", -1, <<>>)]
    ELSE after_by_sym(c, _next_by_sym(c, skip_blanks(c, L)))

\* Lexer.next after the call of _next: `self.line_offset += self.line_change`
add_line_change(r) ==
    IF r.tok.kind = "SYNTAX_ERROR" THEN r
    ELSE [lex |-> [r.lex EXCEPT !.line_offset = @ + r.lex.line_change], tok |-> r.tok]

\* Lexer.next
Lexer_next(c, L) == add_line_change(_next(c, clear_buffer(L)))

(***************************************************************************)
(* Fixed texts                                                             *)
(***************************************************************************)
GLOBAL == <<"_", "G", "L", "O", "B", "A", "L">>
MAIN == <<"m", "a", "i", "n">>
VOID == <<"v", "o", "i", "d">>
ENTRY_LABEL == <<"_", "m", "a", "i", "n">>
BUFFER_PREFIX == <<"B", "U", "F", "F", "E", "R", "_">>
CONST_PREFIX == <<"C", "O", "N", "S", "T", "_">>
FUNCTION_PREFIX == <<"F", "U", "N", "C", "T", "I", "O", "N", "_">>
START_PREFIX == <<"_", "_", "T", "U", "N", "G", "S", "T", "E", "N", "_", "S", "T", "A", "R", "T", "_">>
END_PREFIX == <<"_", "_", "T", "U", "N", "G", "S", "T", "E", "N", "_", "E", "N", "D", "_">>
RETVAL == <<"_", "_", "T", "U", "N", "G", "S", "T", "E", "N", "_", "F", "U", "N", "C", "I", "O", "N", "_", "R", "E", "T", "V", "A", "L">>
SYM_RET == <<"_", "_", "r", "e", "t">>
SYM_START == <<"_", "_", "s", "t", "a", "r", "t">>
SYM_END == <<"_", "_", "e", "n", "d">>

(***************************************************************************)
(* Emitter.  Each stream is the sequence of the chunks appended after the  *)
(* fixed preamble (which ends with a newline).  A chunk is one formatted   *)
(* string: nl tells whether it begins with "\n", dir is its directive and  *)
(* a, b are the formatted arguments.                                       *)
(***************************************************************************)
Chunk(nl, dir, a, b) == [nl |-> nl, dir |-> dir, a |-> a, b |-> b]

EmitterInit == [constants |-> <<>>, text_section |-> <<>>, data_section |-> <<>>]

emit_const(em, name, value) ==
    [em EXCEPT !.constants = Append(@, Chunk(FALSE, ".set", name, value))]

emit_data_label(em, label) ==
    [em EXCEPT !.data_section = Append(@, Chunk(TRUE, ".label", label, <<>>))]

emit_text_label(em, label) ==
    [em EXCEPT !.text_section = Append(@, Chunk(TRUE, ".label", label, <<>>))]

emit_alloc(em, size) ==
    [em EXCEPT !.data_section = Append(@, Chunk(TRUE, ".alloc", Decimal(size), <<>>))]

emit_buffer(em, name, size) == emit_alloc(emit_data_label(em, name), size)

emit_asm_text(em, text) ==
    [em EXCEPT !.text_section = Append(@, Chunk(TRUE, "", text, <<>>))]

(***************************************************************************)
(* Scope.  The parent chain of the current scope is the sequence scopes,   *)
(* outermost first; id tells Scope objects apart (0 is the root) and       *)
(* bodyOf is the signature whose body the scope is (0 for none).           *)
(***************************************************************************)
NoSymbols == [k \in {} |-> <<>>]

Scope(name, id, bodyOf) ==
    [name |-> name, symbols |-> NoSymbols, unnamed_scope_cout |-> 0,
     functions |-> <<>>, id |-> id, bodyOf |-> bodyOf]

header(s) == START_PREFIX \o s.name

footer(s) == END_PREFIX \o s.name

map_generic(s, key, value) ==
    [s EXCEPT !.symbols = [k \in DOMAIN @ \cup {key} |-> IF k = key THEN value ELSE @[k]]]

map_variable(s, name) == map_generic(s, name, BUFFER_PREFIX \o s.name \o <<"_">> \o name)

map_const(s, name) == map_generic(s, name, CONST_PREFIX \o s.name \o <<"_">> \o name)

map_function(s, name) == map_generic(s, name, FUNCTION_PREFIX \o s.name \o <<"_">> \o name)

has_sym_strict(s, name) == name \in DOMAIN s.symbols

RECURSIVE has_sym(_, _)
\* Scope.has_sym of the last scope of a chain
has_sym(chain, name) ==
    IF has_sym_strict(chain[Len(chain)], name) THEN TRUE
    ELSE Len(chain) > 1 /\ has_sym(SubSeq(chain, 1, Len(chain) - 1), name)

RECURSIVE get_sym(_, _)
\* Scope.get_sym of the last scope of a chain; <<>> stands for None
get_sym(chain, name) ==
    IF has_sym_strict(chain[Len(chain)], name) THEN chain[Len(chain)].symbols[name]
    ELSE IF Len(chain) > 1 THEN get_sym(SubSeq(chain, 1, Len(chain) - 1), name)
    ELSE <<>>

\* Scope.new_subscope: the name it returns (the counter is bumped by the caller)
new_subscope(s) == s.name \o Decimal(s.unnamed_scope_cout)

FunctionSignature(name, args, ret_type) ==
    [name |-> name, args |-> args, ret_type |-> ret_type, returned |-> FALSE]

Variable(name, size, tok) == [name |-> name, size |-> size, token |-> tok]

(***************************************************************************)
(* Parser.  The operators below work on a record m of the mutable parts   *)
(* (lexer, cur, scopes, sigs, signature, bodies, em, status, target,       *)
(* created, and var for the value _collect_buf returns) and return the     *)
(* record after the call.  A call that ends the                            *)
(* process leaves the state it had reached, with status telling how:       *)
(* a parser diagnostic (Parser.error, exit -3), "syntax_error"             *)
(* (Lexer.error, exit -2) or "crash" (an uncaught Python exception).       *)
(***************************************************************************)
ParserErrors == {"unexpected_token", "duplicate", "void_alloc", "nested_function",
                 "asm_outside", "noret_outside", "missing_return", "undeclared",
                 "not_global"}

Running(m) == m.status = "running"

\* Parser.error(message, token): the diagnostic points at token, or at _cur
error(m, kind, tok) == [m EXCEPT !.status = kind, !.target = tok]

\* an attribute access on None: AttributeError, the process ends with a traceback
crash(m) == [m EXCEPT !.status = "crash"]

\* sequencing: once a call has ended the process, what follows it does not run
Then(m, F(_)) == IF Running(m) THEN F(m) ELSE m

Top(m) == m.scopes[Len(m.scopes)]

\* Parser.next after one call of Lexer.next: `token.kind` raises on None
took(m, r) ==
    IF r.tok.kind = "SYNTAX_ERROR" THEN [m EXCEPT !.lexer = r.lex, !.status = "syntax_error"]
    ELSE IF r.tok.kind = "None" THEN crash([m EXCEPT !.lexer = r.lex])
    ELSE [m EXCEPT !.lexer = r.lex, !.cur = r.tok]

RECURSIVE Parser_next(_, _)
\* Parser.next: end-of-line tokens are skipped
Parser_next(c, m) ==
    IF Lexer_next(c, m.lexer).tok.kind = "EOL"
    THEN Parser_next(c, [m EXCEPT !.lexer = Lexer_next(c, m.lexer).lex])
    ELSE took(m, Lexer_next(c, m.lexer))

\* Parser.expect
expect(c, m, token_kinds) ==
    Then(Parser_next(c, m), LAMBDA m1 :
        IF m1.cur.kind \notin token_kinds
        THEN error(m1, "unexpected_token", m1.cur)
        ELSE m1)

\* the `match (type.kind)` of Parser._collect_buf
type_size(type) ==
    IF type.kind = "TYPE"
    THEN IF type.text = <<"b", "y", "t", "e">> THEN 1
         ELSE IF type.text \in {<<"i", "n", "t">>, <<"p", "t", "r">>} THEN 2
         ELSE 0
    ELSE type.value

\* Parser._collect_buf; the Variable it returns is left in m.var
_collect_buf(c, m) ==
    Then(expect(c, m, {"IDENTIFIER"}), LAMBDA m1 :
    Then(expect(c, m1, {"TYPE", "BYTE"}), LAMBDA m2 :
        [m2 EXCEPT !.var = Variable(m1.cur.text, type_size(m2.cur), m1.cur)]))

\* `self.scope.map_variable(name)` on the current scope
declare_variable(chain, name) ==
    [chain EXCEPT ![Len(chain)] = map_variable(@, name)]

\* Parser._alloc_var
_alloc_var(m, var) ==
    IF m.scopes = <<>> THEN crash(m)
    ELSE IF has_sym_strict(Top(m), var.name) THEN error(m, "duplicate", var.token)
    ELSE IF var.size = 0 THEN error(m, "void_alloc", m.cur)
    ELSE [m EXCEPT !.scopes = declare_variable(@, var.name),
                   !.em = emit_buffer(@, get_sym(declare_variable(m.scopes, var.name), var.name),
                                      var.size)]

\* Parser.parse_buffer
parse_buffer(c, m) ==
    Then(_collect_buf(c, m), LAMBDA m1 : _alloc_var(m1, m1.var))

\* str(value.value) of the value token of a constant
value_text(tok) == IF tok.kind \in {"BYTE", "INT16"} THEN Decimal(tok.value) ELSE tok.text

\* `self.scope.map_const(name)` on the current scope
declare_const(chain, name) ==
    [chain EXCEPT ![Len(chain)] = map_const(@, name)]

\* Parser.parse_const
parse_const(c, m) ==
    Then(expect(c, m, {"IDENTIFIER"}), LAMBDA m1 :
    Then(expect(c, m1, {"EQUALS"}), LAMBDA m2 :
    Then(expect(c, m2, {"IDENTIFIER", "BYTE", "INT16", "STRING", "TYPE"}), LAMBDA m3 :
        IF m3.scopes = <<>> THEN crash(m3)
        ELSE IF has_sym_strict(Top(m3), m1.cur.text) THEN error(m3, "duplicate", m3.cur)
        ELSE [m3 EXCEPT !.scopes = declare_const(@, m1.cur.text),
                        !.em = emit_const(@, get_sym(declare_const(m3.scopes, m1.cur.text),
                                                     m1.cur.text),
                                          value_text(m3.cur))])))

RECURSIVE alloc_args(_, _, _)
\* `for arg in self.signature.args: self._alloc_var(arg)`
alloc_args(m, args, i) ==
    IF i > Len(args) \/ ~Running(m) THEN m
    ELSE alloc_args(_alloc_var(m, args[i]), args, i + 1)

\* Scope(name, self.scope) and, for a function, its three aliases
opened_scope(name, id, bodyOf, anon) ==
    IF anon THEN Scope(name, id, bodyOf)
    ELSE map_generic(map_generic(map_generic(Scope(name, id, bodyOf), SYM_RET, RETVAL),
                                 SYM_START, START_PREFIX \o name),
                     SYM_END, END_PREFIX \o name)

\* Parser.parse_new_scope once the name of the new scope is known
open_scope(m, name, anon, isBody) ==
    Then(alloc_args(
            [m EXCEPT !.scopes = Append(IF anon
                                        THEN [@ EXCEPT ![Len(@)].unnamed_scope_cout = @ + 1]
                                        ELSE @,
                                        opened_scope(name, m.created + 1,
                                                     IF isBody THEN m.signature ELSE 0, anon)),
                      !.em = IF name = MAIN THEN emit_text_label(@, ENTRY_LABEL) ELSE @,
                      !.created = @ + 1,
                      !.bodies = IF isBody THEN [@ EXCEPT ![m.signature] = "open"] ELSE @],
            IF anon THEN <<>> ELSE m.sigs[m.signature].args, 1),
         LAMBDA m2 : [m2 EXCEPT !.em = emit_text_label(@, header(Top(m2)))])

\* Parser.parse_new_scope
parse_new_scope(m) ==
    IF m.signature = 0
    THEN IF m.scopes = <<>> THEN crash(m)
         ELSE open_scope(m, new_subscope(Top(m)), TRUE, FALSE)
    ELSE open_scope(m, m.sigs[m.signature].name, FALSE, m.bodies[m.signature] = "declared")

\* the first condition of Parser.parse_end_scope
closes_function(m) ==
    m.signature # 0 /\ m.sigs[m.signature].name = Top(m).name

\* Parser.parse_end_scope
parse_end_scope(m) ==
    IF m.scopes = <<>> THEN crash(m)
    ELSE IF /\ closes_function(m)
            /\ m.sigs[m.signature].ret_type # VOID
            /\ ~m.sigs[m.signature].returned
    THEN error(m, "missing_return", m.cur)
    ELSE [m EXCEPT !.signature = IF closes_function(m) THEN 0 ELSE @,
                   !.em = emit_text_label(@, footer(Top(m))),
                   !.scopes = SubSeq(@, 1, Len(@) - 1),
                   !.bodies = IF Top(m).bodyOf # 0
                              THEN [@ EXCEPT ![Top(m).bodyOf] = "closed"]
                              ELSE @]

\* a new FunctionSignature object becomes Parser.signature
new_signature(m, name, ret_type) ==
    [m EXCEPT !.sigs = Append(@, FunctionSignature(name, <<>>, ret_type)),
              !.signature = Len(m.sigs) + 1,
              !.bodies = Append(@, "declared")]

RECURSIVE collect_args(_, _)
\* the `while True` loop of Parser.parse_function
collect_args(c, m) ==
    Then(_collect_buf(c, m), LAMBDA m1 :
    Then(expect(c, [m1 EXCEPT !.sigs[m1.signature].args = Append(@, m1.var)],
                {"RPAREN", "COMMA"}), LAMBDA m2 :
        IF m2.cur.kind = "RPAREN" THEN m2 ELSE collect_args(c, m2)))

\* Parser.parse_function; the ret_type None of a signature under construction is <<>>
parse_function(c, m) ==
    IF m.scopes = <<>> THEN crash(m)
    ELSE IF Top(m).name # GLOBAL THEN error(m, "nested_function", m.cur)
    ELSE Then(expect(c, m, {"IDENTIFIER"}), LAMBDA m1 :
         Then(expect(c, m1, {"LPAREN", "TYPE"}), LAMBDA m2 :
         Then(IF m2.cur.kind = "LPAREN"
              THEN Then(collect_args(c, new_signature(m2, m1.cur.text, <<>>)), LAMBDA a :
                   Then(expect(c, a, {"TYPE"}), LAMBDA b :
                        [b EXCEPT !.sigs[b.signature].ret_type = b.cur.text]))
              ELSE new_signature(m2, m1.cur.text, m2.cur.text), LAMBDA m3 :
              [m3 EXCEPT !.scopes[Len(m3.scopes)].functions = Append(@, m3.signature)])))

RECURSIVE name_end(_, _)
\* the inner loop of Parser._parse_asm: the position after the name that starts at i
name_end(text, i) ==
    IF i <= Len(text) /\ (isalnum(text[i]) \/ text[i] = "_")
    THEN name_end(text, i + 1)
    ELSE i

RECURSIVE _parse_asm(_, _, _, _)
\* Parser._parse_asm from position i (1-based) with out built so far
_parse_asm(chain, text, i, out) ==
    IF i > Len(text) THEN [status |-> "running", out |-> out]
    ELSE IF text[i] = "%"
    THEN IF chain = <<>> THEN [status |-> "crash", out |-> out]
         ELSE IF ~has_sym(chain, SubSeq(text, i + 1, name_end(text, i + 1) - 1))
         THEN [status |-> "undeclared", out |-> out]
         ELSE _parse_asm(chain, text, name_end(text, i + 1),
                         out \o get_sym(chain, SubSeq(text, i + 1, name_end(text, i + 1) - 1)))
    ELSE _parse_asm(chain, text, i + 1, Append(out, text[i]))

\* Parser.parse_asm after the call of _parse_asm
emit_asm(m, r) ==
    IF r.status = "crash" THEN crash(m)
    ELSE IF r.status = "undeclared" THEN error(m, "undeclared", m.cur)
    ELSE [m EXCEPT !.em = emit_asm_text(@, r.out)]

\* parse_asm without its `if self.signature == None` check
parse_asm_unchecked(c, m) ==
    Then(expect(c, m, {"STRING"}), LAMBDA m1 :
        emit_asm(m1, _parse_asm(m1.scopes, m1.cur.text, 1, <<>>)))

\* Parser.parse_asm
parse_asm(c, m) ==
    Then(expect(c, m, {"STRING"}), LAMBDA m1 :
        IF m1.signature = 0 THEN error(m1, "asm_outside", m1.cur)
        ELSE emit_asm(m1, _parse_asm(m1.scopes, m1.cur.text, 1, <<>>)))

\* Parser.parse_noret
parse_noret(m) ==
    IF m.signature = 0 THEN error(m, "noret_outside", m.cur)
    ELSE [m EXCEPT !.sigs[m.signature].returned = TRUE]

\* the check after the loop of Parser.parse
end_of_input(m) ==
    IF m.scopes = <<>> THEN crash(m)
    ELSE IF Top(m).name # GLOBAL THEN error(m, "not_global", m.cur)
    ELSE [m EXCEPT !.status = "accepted"]

\* the `match` of Parser.parse on the kind k of the token just read
dispatch(c, m, k) ==
    CASE k = "BUFFER" -> parse_buffer(c, m)
      [] k = "CONST" -> parse_const(c, m)
      [] k = "FUNCTION" -> parse_function(c, m)
      [] k = "LSCOPE" -> parse_new_scope(m)
      [] k = "RSCOPE" -> parse_end_scope(m)
      [] k = "ASM" -> parse_asm(c, m)
      [] k = "NORET" -> parse_noret(m)
      [] OTHER -> m

\* Parser.parse: one turn of the `while True` loop, and for EOF the check after it
parse(c, m) ==
    Then(Parser_next(c, m), LAMBDA m1 :
        IF m1.cur.kind = "EOF" THEN end_of_input(m1)
        ELSE Then(dispatch(c, m1, m1.cur.kind), LAMBDA m2 :
                  IF m1.cur.kind \notin {"FUNCTION", "LSCOPE", "RSCOPE"}
                  THEN expect(c, m2, {"SEMICOLON"})
                  ELSE m2))

(***************************************************************************)
(* Source statements.  The program text is revealed one statement at a     *)
(* time; each statement is a line of its own.  A statement is drawn from   *)
(* the sets below and written out as source text, which the lexer model    *)
(* then reads character by character.                                      *)
(***************************************************************************)
BYTE_TYPE == <<"b", "y", "t", "e">>
INT_TYPE == <<"i", "n", "t">>

VarNames == {<<"x">>, <<"a">>}
FnNames == {<<"f">>, GLOBAL}
BufTypes == {BYTE_TYPE, VOID, <<"2">>, <<"0">>}
RetTypes == {VOID, INT_TYPE}
Arg(name, type) == [name |-> name, type |-> type]
ArgLists == {<<>>,
             <<Arg(<<"a">>, BYTE_TYPE), Arg(<<"x">>, INT_TYPE)>>,
             <<Arg(<<"a">>, BYTE_TYPE), Arg(<<"a">>, BYTE_TYPE)>>}
ArgFnNames == {<<"f">>}
ArgRetTypes == {VOID}
AsmTexts == {<<"n">>, <<"%", "x">>, <<"j", " ", "%", "a", ",", "%", "x">>}
ConstValues == {<<"5">>}

Stmt(kind, name, type, args, text) ==
    [kind |-> kind, name |-> name, type |-> type, args |-> args, text |-> text]

NoStmt == Stmt("none", <<>>, <<>>, <<>>, <<>>)

RECURSIVE ArgsSrc(_)
\* `a byte, b int`
ArgsSrc(args) ==
    IF args = <<>> THEN <<>>
    ELSE Head(args).name \o <<" ">> \o Head(args).type
         \o (IF Len(args) > 1 THEN <<",", " ">> ELSE <<>>) \o ArgsSrc(Tail(args))

\* the text of a statement; "fn" is written without parentheses, "fnargs" with
Src(s) ==
    <<"\n">> \o
    CASE s.kind = "buf" -> <<"b", "u", "f", " ">> \o s.name \o <<" ">> \o s.type \o <<";">>
      [] s.kind = "const" -> <<"c", "o", "n", "s", "t", " ">> \o s.name \o <<" ", "=", " ">> \o s.text \o <<";">>
      [] s.kind = "fn" -> <<"f", "n", " ">> \o s.name \o <<" ">> \o s.type
      [] s.kind = "fnargs" -> <<"f", "n", " ">> \o s.name \o <<" ", "(">> \o ArgsSrc(s.args)
                              \o <<")", " ">> \o s.type
      [] s.kind = "open" -> <<"{">>
      [] s.kind = "close" -> <<"}">>
      [] s.kind = "asm" -> <<"a", "s", "m", " ">> \o <<"\"">> \o s.text \o <<"\"", ";">>
      [] s.kind = "noret" -> <<"n", "o", "r", "e", "t">> \o <<";">>
      [] s.kind = "ret" -> <<"r", "e", "t">> \o <<";">>
      [] s.kind = "stray" -> s.text \o <<";">>
      [] OTHER -> <<>>

(***************************************************************************)
(* The state machine                                                       *)
(***************************************************************************)
ParserInit ==
    [lexer |-> LexerInit, cur |-> NoToken, scopes |-> <<Scope(GLOBAL, 0, 0)>>,
     sigs |-> <<>>, signature |-> 0, bodies |-> <<>>, em |-> EmitterInit,
     status |-> "running", target |-> NoToken, created |-> 0,
     var |-> Variable(<<>>, 0, NoToken)]

Machine ==
    [lexer |-> lexer, cur |-> cur, scopes |-> scopes, sigs |-> sigs,
     signature |-> signature, bodies |-> bodies, em |-> emitter,
     status |-> status, target |-> target, created |-> created,
     var |-> ParserInit.var]

Becomes(m) ==
    /\ lexer' = m.lexer
    /\ cur' = m.cur
    /\ scopes' = m.scopes
    /\ sigs' = m.sigs
    /\ signature' = m.signature
    /\ bodies' = m.bodies
    /\ emitter' = m.em
    /\ status' = m.status
    /\ target' = m.target
    /\ created' = m.created

Init ==
    /\ code = <<>>
    /\ stmt = NoStmt
    /\ lexer = ParserInit.lexer
    /\ cur = ParserInit.cur
    /\ scopes = ParserInit.scopes
    /\ sigs = ParserInit.sigs
    /\ signature = ParserInit.signature
    /\ bodies = ParserInit.bodies
    /\ emitter = ParserInit.em
    /\ status = ParserInit.status
    /\ target = ParserInit.target
    /\ created = ParserInit.created

\* the text of statement s is appended to the source and Parser.parse runs
\* one turn of its loop on it
Feed(s) ==
    /\ code' = code \o Src(s)
    /\ stmt' = s
    /\ Becomes(parse(code \o Src(s), Machine))

\* statements are fed while the parser runs, up to a bound on their number
\* (every statement is one more line of the source)
CanFeed(bound) == status = "running" /\ lexer.line_num < bound

Buffer ==
    \E name \in VarNames, type \in BufTypes :
        /\ CanFeed(MaxStmts)
        /\ Feed(Stmt("buf", name, type, <<>>, <<>>))

Const ==
    \E name \in VarNames, value \in ConstValues :
        /\ CanFeed(MaxStmts)
        /\ Feed(Stmt("const", name, <<>>, <<>>, value))

Function ==
    \E name \in FnNames, ret \in RetTypes :
        /\ CanFeed(MaxStmts)
        /\ Feed(Stmt("fn", name, ret, <<>>, <<>>))

FunctionArgs ==
    \E name \in ArgFnNames, args \in ArgLists, ret \in ArgRetTypes :
        /\ CanFeed(MaxStmts)
        /\ Feed(Stmt("fnargs", name, ret, args, <<>>))

NewScope ==
    /\ CanFeed(MaxStmts)
    /\ Feed(Stmt("open", <<>>, <<>>, <<>>, <<>>))

EndScope ==
    /\ CanFeed(MaxStmts)
    /\ Feed(Stmt("close", <<>>, <<>>, <<>>, <<>>))

Asm ==
    \E text \in AsmTexts :
        /\ CanFeed(MaxStmts)
        /\ Feed(Stmt("asm", <<>>, <<>>, <<>>, text))

Noret ==
    /\ CanFeed(MaxStmts)
    /\ Feed(Stmt("noret", <<>>, <<>>, <<>>, <<>>))

Return ==
    /\ CanFeed(MaxStmts)
    /\ Feed(Stmt("ret", <<>>, <<>>, <<>>, <<>>))

\* the source ends here: the lexer returns EOF and Parser.parse leaves its loop
EndOfFile ==
    /\ status = "running"
    /\ code' = code
    /\ stmt' = Stmt("eof", <<>>, <<>>, <<>>, <<>>)
    /\ Becomes(parse(code, Machine))

Next ==
    \/ Buffer
    \/ Const
    \/ Function
    \/ FunctionArgs
    \/ NewScope
    \/ EndScope
    \/ Asm
    \/ Noret
    \/ Return
    \/ EndOfFile

Spec == Init /\ [][Next]_vars

(***************************************************************************)
(* The lexer alone: Lexer.next is called again and again on a short text   *)
(* until it ends the process or hands out no token.                        *)
(***************************************************************************)
LexAlphabet == {"0", "1", "x", "b", "f", ";", " "}

LexInputs == UNION {[1..k -> LexAlphabet] : k \in 0..MaxCodeLen}

InitLex ==
    /\ code \in LexInputs
    /\ stmt = NoStmt
    /\ lexer = LexerInit
    /\ cur = NoToken
    /\ scopes = ParserInit.scopes
    /\ sigs = ParserInit.sigs
    /\ signature = ParserInit.signature
    /\ bodies = ParserInit.bodies
    /\ emitter = ParserInit.em
    /\ status = "lexing"
    /\ target = ParserInit.target
    /\ created = ParserInit.created

\* one call of Lexer.next; cur is the token it returns
LexNext ==
    /\ status = "lexing"
    /\ LET r == Lexer_next(code, lexer) IN
        /\ lexer' = r.lex
        /\ cur' = r.tok
        /\ status' = IF r.tok.kind = "SYNTAX_ERROR" THEN "syntax_error"
                     ELSE IF r.tok.kind = "None" THEN "no_token"
                     ELSE "lexing"
    /\ UNCHANGED <<code, stmt, scopes, sigs, signature, bodies, emitter, target, created>>

NextLex == LexNext

SpecLex == InitLex /\ [][NextLex]_vars

(***************************************************************************)
(* The parser on programs made of `{` and `}` only.                        *)
(***************************************************************************)
BlockOpen ==
    /\ CanFeed(MaxBlockStmts)
    /\ Len(scopes) <= MaxDepth
    /\ Feed(Stmt("open", <<>>, <<>>, <<>>, <<>>))

BlockClose ==
    /\ CanFeed(MaxBlockStmts)
    /\ Feed(Stmt("close", <<>>, <<>>, <<>>, <<>>))

NextBlocks ==
    \/ BlockOpen
    \/ BlockClose
    \/ EndOfFile

SpecBlocks == Init /\ [][NextBlocks]_vars

(***************************************************************************)
(* The parser on programs of function declarations, blocks, asm and noret  *)
(* statements.                                                             *)
(***************************************************************************)
NextActive ==
    \/ Function
    \/ NewScope
    \/ EndScope
    \/ Asm
    \/ Noret
    \/ EndOfFile

SpecActive == Init /\ [][NextActive]_vars

(***************************************************************************)
(* Properties                                                              *)
(***************************************************************************)
\* number of `{` and of `}` in the source read so far (asm texts hold no brace)
Opens == Cardinality({i \in DOMAIN code : code[i] = "{"})
Closes == Cardinality({i \in DOMAIN code : code[i] = "}"})

\* the current scope is the Scope object the parser was constructed with
AtRoot == Len(scopes) = 1 /\ scopes[1].id = 0

\* C1: an accepted input has as many `{` as `}` and ends in the original global
\* scope; an input that reaches end of file with a scope still open is rejected
\* with the "Code does not end in _GLOBAL scope" error.
C1_AcceptedBalancedAtRoot ==
    /\ status = "accepted" => (Opens = Closes /\ AtRoot)
    /\ (stmt.kind = "eof" /\ scopes # <<>> /\ ~AtRoot) => status = "not_global"

\* C2: the `}` of a block nested in the body of the active function neither
\* clears the active function nor triggers the missing-return check.
C2_NestedCloseKeepsFunction ==
    [][(/\ status = "running"
        /\ stmt'.kind = "close"
        /\ scopes # <<>>
        /\ signature # 0
        /\ bodies[signature] = "open"
        /\ scopes[Len(scopes)].bodyOf = 0)
       => (signature' = signature /\ status' = "running")]_vars

\* C3: no accepted program holds a function of non-void return type whose body
\* was opened and closed without a `noret` processed for it; the missing-return
\* error is raised only for a non-void function without that acknowledgment.
C3_NonVoidBodiesAcknowledged ==
    /\ status = "accepted" =>
           \A i \in DOMAIN sigs :
               (sigs[i].ret_type # VOID /\ bodies[i] = "closed") => sigs[i].returned
    /\ status = "missing_return" =>
           (signature # 0 /\ sigs[signature].ret_type # VOID /\ ~sigs[signature].returned)

\* C4: a `fn` declaration processed while the current scope is a scope other
\* than the root scope is rejected with the nested-function error.
C4_NestedFunctionRejected ==
    [][(/\ status = "running"
        /\ stmt'.kind \in {"fn", "fnargs"}
        /\ scopes # <<>>
        /\ ~AtRoot)
       => status' = "nested_function"]_vars

HasDuplicateNames(args) ==
    \E i, j \in DOMAIN args : i < j /\ args[i].name = args[j].name

\* C5: declaring by `buf` or `const` an identifier bound in the current scope's
\* own symbol map fails with the duplicate-declaration error and changes neither
\* the scopes nor the emitter streams; so does opening the body of a function
\* that declares the same argument twice.
C5_DuplicateRejected ==
    [][/\ (/\ status = "running"
           /\ stmt'.kind \in {"buf", "const"}
           /\ scopes # <<>>
           /\ stmt'.name \in DOMAIN scopes[Len(scopes)].symbols)
          => (status' = "duplicate" /\ scopes' = scopes /\ emitter' = emitter)
       /\ (/\ status = "running"
           /\ stmt'.kind = "open"
           /\ signature # 0
           /\ HasDuplicateNames(sigs[signature].args))
          => status' = "duplicate"]_vars

\* C6: in an accepted program no data label is emitted twice into the data
\* section (two declarations never receive the same mangled symbol).
C6_DataLabelsDistinct ==
    status = "accepted" =>
        \A i, j \in DOMAIN emitter.data_section :
            (/\ i < j
             /\ emitter.data_section[i].dir = ".label"
             /\ emitter.data_section[j].dir = ".label")
            => emitter.data_section[i].a # emitter.data_section[j].a

IsStartLabel(chunk) ==
    /\ chunk.dir = ".label"
    /\ Len(chunk.a) >= Len(START_PREFIX)
    /\ SubSeq(chunk.a, 1, Len(START_PREFIX)) = START_PREFIX

\* C7: no two scopes opened during one compilation receive the same name, so no
\* start label is emitted twice (checked on programs of anonymous blocks only).
C7_ScopeNamesDistinct ==
    \A i, j \in DOMAIN emitter.text_section :
        (/\ i < j
         /\ IsStartLabel(emitter.text_section[i])
         /\ IsStartLabel(emitter.text_section[j]))
        => emitter.text_section[i].a # emitter.text_section[j].a

IsNameChar(ch) == ch \in Digits \cup Lower \cup Upper \cup {"_"}

RECURSIVE NamePrefix(_)
\* the longest prefix of t made of name characters
NamePrefix(t) ==
    IF t # <<>> /\ IsNameChar(Head(t)) THEN <<Head(t)>> \o NamePrefix(Tail(t)) ELSE <<>>

Drop(t, n) == SubSeq(t, n + 1, Len(t))

RECURSIVE PlaceholderNames(_)
\* the names of the `%name` placeholders of an asm text
PlaceholderNames(t) ==
    IF t = <<>> THEN {}
    ELSE IF Head(t) = "%"
    THEN {NamePrefix(Tail(t))}
         \cup PlaceholderNames(Drop(Tail(t), Len(NamePrefix(Tail(t)))))
    ELSE PlaceholderNames(Tail(t))

\* the scopes of a chain that declare a name, and the symbol of the nearest one
Declaring(chain, name) == {i \in DOMAIN chain : name \in DOMAIN chain[i].symbols}
Nearest(chain, name) ==
    chain[CHOOSE i \in Declaring(chain, name) :
              \A j \in Declaring(chain, name) : j <= i].symbols[name]

RECURSIVE Substituted(_, _)
\* an asm text with every placeholder replaced by the nearest symbol
Substituted(chain, t) ==
    IF t = <<>> THEN <<>>
    ELSE IF Head(t) = "%"
    THEN Nearest(chain, NamePrefix(Tail(t)))
         \o Substituted(chain, Drop(Tail(t), Len(NamePrefix(Tail(t)))))
    ELSE <<Head(t)>> \o Substituted(chain, Tail(t))

\* C8: an asm statement processed while a function is active appends the text
\* with every placeholder replaced by the symbol of the nearest enclosing scope
\* that declares its name; when a placeholder's name is bound in no scope of the
\* chain it fails with the undeclared-symbol error and appends nothing.
C8_AsmSubstitution ==
    [][(status = "running" /\ stmt'.kind = "asm" /\ signature # 0)
       => IF \A name \in PlaceholderNames(stmt'.text) : Declaring(scopes, name) # {}
          THEN /\ status' = "running"
               /\ emitter' = [emitter EXCEPT !.text_section =
                                 Append(@, Chunk(TRUE, "", Substituted(scopes, stmt'.text), <<>>))]
          ELSE /\ status' = "undeclared"
               /\ emitter' = emitter]_vars

\* C9: an asm or noret statement processed while no function is active (no
\* signature is current: none was declared, or the body of the last declared
\* function has closed) is rejected with the parser error for it, appends
\* nothing to any emitter stream and changes no signature's returned flag.
NoActiveFunction ==
    \/ signature = 0
    \/ sigs = <<>>
    \/ bodies[Len(sigs)] = "closed"

C9_OutsideFunctionRejected ==
    [][(status = "running" /\ NoActiveFunction /\ stmt'.kind \in {"asm", "noret"})
       => /\ status' = (IF stmt'.kind = "asm" THEN "asm_outside" ELSE "noret_outside")
          /\ status' \in ParserErrors
          /\ emitter' = emitter
          /\ sigs' = sigs]_vars

\* C9 witness: an asm statement was rejected after the body of the last
\* declared function had closed
C9_Witness ==
    /\ status = "asm_outside"
    /\ stmt.kind = "asm"
    /\ sigs # <<>>
    /\ bodies[Len(sigs)] = "closed"

HexDigitChars == {HexLower[i] : i \in 1..16} \cup {HexUpper[i] : i \in 1..16}

IsDecimalLiteral(t) == t # <<>> /\ \A i \in DOMAIN t : t[i] \in Digits
IsHexLiteral(t) ==
    Len(t) >= 3 /\ t[1] = "0" /\ t[2] = "x" /\ \A i \in 3..Len(t) : t[i] \in HexDigitChars
IsBinLiteral(t) ==
    Len(t) >= 3 /\ t[1] = "0" /\ t[2] = "b" /\ \A i \in 3..Len(t) : t[i] \in {"0", "1"}
IsLiteral(t) == IsDecimalLiteral(t) \/ IsHexLiteral(t) \/ IsBinLiteral(t)

LiteralRadix(t) == IF IsHexLiteral(t) THEN 16 ELSE IF IsBinLiteral(t) THEN 2 ELSE 10
LiteralDigits(t) == IF IsDecimalLiteral(t) THEN t ELSE Drop(t, 2)

RECURSIVE Pow(_, _)
Pow(b, n) == IF n = 0 THEN 1 ELSE b * Pow(b, n - 1)

RECURSIVE PositionalValue(_, _)
\* the number a digit string denotes: each digit weighs radix^(its place)
PositionalValue(d, radix) ==
    IF d = <<>> THEN 0
    ELSE DigitVal(Head(d)) * Pow(radix, Len(d) - 1) + PositionalValue(Tail(d), radix)

LiteralValue(t) == PositionalValue(LiteralDigits(t), LiteralRadix(t))

\* C10: for a text that is one decimal, 0x or 0b literal of value v <= 65535,
\* the first call of Lexer.next returns one token for the whole text, of value
\* v and of kind BYTE when v <= 255, INT16 otherwise.
C10_LiteralToken ==
    [][(/\ status = "lexing"
        /\ lexer.index = 0
        /\ IsLiteral(code)
        /\ LiteralValue(code) <= 65535)
       => /\ cur'.kind = (IF LiteralValue(code) <= 255 THEN "BYTE" ELSE "INT16")
          /\ cur'.value = LiteralValue(code)
          /\ lexer'.index = Len(code)]_vars

\* a text that starts like a number (a digit first, letters and digits only)
\* and is no well-formed decimal, 0x or 0b literal
IsMalformedLiteral(t) ==
    /\ t # <<>>
    /\ t[1] \in Digits
    /\ \A i \in DOMAIN t : isalnum(t[i])
    /\ ~IsLiteral(t)

\* C11: a numeric literal holding a digit outside the alphabet of its radix is
\* rejected with a lexical error by the call of Lexer.next that reads it; it is
\* never split into several tokens or accepted with a truncated value.
C11_MalformedLiteralRejected ==
    [][(/\ status = "lexing"
        /\ lexer.index = 0
        /\ IsMalformedLiteral(code))
       => status' = "syntax_error"]_vars

\* C12: a statement `const <ident> = <literal>;` whose identifier is not yet
\* declared in the current scope succeeds, binds the identifier to the symbol
\* CONST_<scope>_<ident> and appends exactly one entry with that symbol and
\* the literal's value to the constants stream, leaving the other streams.
C12_ConstDeclared ==
    [][(/\ status = "running"
        /\ stmt'.kind = "const"
        /\ scopes # <<>>
        /\ stmt'.name \notin DOMAIN scopes[Len(scopes)].symbols)
       => /\ status' = "running"
          /\ Len(scopes') = Len(scopes)
          /\ stmt'.name \in DOMAIN scopes'[Len(scopes')].symbols
          /\ scopes'[Len(scopes')].symbols[stmt'.name]
                 = CONST_PREFIX \o scopes[Len(scopes)].name \o <<"_">> \o stmt'.name
          /\ Len(emitter'.constants) = Len(emitter.constants) + 1
          /\ emitter'.constants[Len(emitter'.constants)].dir = ".set"
          /\ emitter'.constants[Len(emitter'.constants)].a
                 = CONST_PREFIX \o scopes[Len(scopes)].name \o <<"_">> \o stmt'.name
          /\ emitter'.constants[Len(emitter'.constants)].b = stmt'.text
          /\ emitter'.data_section = emitter.data_section
          /\ emitter'.text_section = emitter.text_section]_vars

\* C13: every call of Lexer.next returns one token whose kind is in TokenKind
\* or ends with a lexical error, never without a token; once the input is
\* exhausted it returns EOF.
C13_NextReturnsToken ==
    [][(status = "lexing")
       => /\ status' # "no_token"
          /\ (status' = "lexing" => cur'.kind \in TokenKind)
          /\ (lexer.index >= Len(code) => cur'.kind = "EOF")]_vars

\* the size a buffer type stands for: 1 for byte, 2 for int and ptr, 0 for
\* void, n for a literal n
ResolvedSize(type) ==
    IF type = BYTE_TYPE THEN 1
    ELSE IF type \in {INT_TYPE, <<"p", "t", "r">>} THEN 2
    ELSE IF type = VOID THEN 0
    ELSE LiteralValue(type)

\* C14: an accepted `buf <ident> <type>` appends to the data stream the label
\* BUFFER_<current scope>_<ident> followed by one allocation of the resolved
\* size and leaves the other streams; a declaration of resolved size zero is
\* rejected with a parser error and emits nothing.
C14_BufferEmitsLabelAndAlloc ==
    [][(status = "running" /\ stmt'.kind = "buf")
       => IF ResolvedSize(stmt'.type) = 0
          THEN status' \in ParserErrors /\ emitter' = emitter
          ELSE status' = "running"
               => emitter' = [emitter EXCEPT !.data_section = @ \o
                      <<Chunk(TRUE, ".label",
                              BUFFER_PREFIX \o scopes[Len(scopes)].name \o <<"_">> \o stmt'.name,
                              <<>>),
                        Chunk(TRUE, ".alloc", Decimal(ResolvedSize(stmt'.type)), <<>>)>>]]_vars

\* the index in the source of the newline that starts line k (k >= 1)
LineStart(k) ==
    CHOOSE p \in DOMAIN code :
        code[p] = "\n" /\ Cardinality({q \in 1..p : code[q] = "\n"}) = k

\* the characters of line lnum from offset (counted from the first character
\* of the line, which is no blank here) over length characters
LineSpan(lnum, offset, length) ==
    SubSeq(code, LineStart(lnum) + offset + 1, LineStart(lnum) + offset + length)

\* C15: when a duplicate declaration is rejected the diagnostic points at the
\* re-declared identifier token: its length is the identifier's length and its
\* offset is the number of characters of its line before the identifier.
C15_DuplicateDiagnosticToken ==
    status = "duplicate" =>
        /\ target.kind = "IDENTIFIER"
        /\ target.length = Len(target.text)
        /\ LineSpan(target.lnum, target.offset, target.length) = target.text
        /\ (stmt.kind \in {"buf", "const"}
            => target.text = stmt.name /\ target.lnum = lexer.line_num)

\* C16: a function declaration with a parenthesised list of zero or more
\* arguments, processed in the root scope, is accepted and makes active a
\* signature of the given name and return type whose argument list holds the
\* arguments in source order (none for an empty list).
C16_ArgumentListAccepted ==
    [][(status = "running" /\ stmt'.kind = "fnargs" /\ AtRoot)
       => /\ status' = "running"
          /\ signature' # 0
          /\ sigs'[signature'].name = stmt'.name
          /\ sigs'[signature'].ret_type = stmt'.type
          /\ Len(sigs'[signature'].args) = Len(stmt'.args)
          /\ \A i \in DOMAIN stmt'.args :
                 /\ sigs'[signature'].args[i].name = stmt'.args[i].name
                 /\ sigs'[signature'].args[i].size = ResolvedSize(stmt'.args[i].type)]_vars

(***************************************************************************)
(* The emitter alone: its methods are called in any order on a new         *)
(* Emitter, up to MaxEmits chunks.                                         *)
(***************************************************************************)
MaxEmits == 3

EmitNames == {<<"a">>, <<"b">>}
EmitValues == {<<"5">>}
EmitSizes == {1, 2}
EmitTexts == {<<"n">>}

InitEmitter ==
    /\ code = <<>>
    /\ stmt = NoStmt
    /\ lexer = LexerInit
    /\ cur = NoToken
    /\ scopes = ParserInit.scopes
    /\ sigs = ParserInit.sigs
    /\ signature = ParserInit.signature
    /\ bodies = ParserInit.bodies
    /\ emitter = EmitterInit
    /\ status = "emitting"
    /\ target = ParserInit.target
    /\ created = ParserInit.created

\* number of chunks appended so far
Emitted == Len(emitter.constants) + Len(emitter.text_section) + Len(emitter.data_section)

\* the emitter is the only object that changes
Emits(em) ==
    /\ emitter' = em
    /\ UNCHANGED <<code, stmt, lexer, cur, scopes, sigs, signature, bodies, status,
                   target, created>>

CanEmit == status = "emitting" /\ Emitted < MaxEmits

EmitConst ==
    \E name \in EmitNames, value \in EmitValues :
        /\ CanEmit
        /\ Emits(emit_const(emitter, name, value))

EmitDataLabel ==
    \E label \in EmitNames :
        /\ CanEmit
        /\ Emits(emit_data_label(emitter, label))

EmitTextLabel ==
    \E label \in EmitNames :
        /\ CanEmit
        /\ Emits(emit_text_label(emitter, label))

EmitAlloc ==
    \E size \in EmitSizes :
        /\ CanEmit
        /\ Emits(emit_alloc(emitter, size))

EmitBuffer ==
    \E name \in EmitNames, size \in EmitSizes :
        /\ CanEmit
        /\ Emits(emit_buffer(emitter, name, size))

EmitAsmText ==
    \E text \in EmitTexts :
        /\ CanEmit
        /\ Emits(emit_asm_text(emitter, text))

NextEmitter ==
    \/ EmitConst
    \/ EmitDataLabel
    \/ EmitTextLabel
    \/ EmitAlloc
    \/ EmitBuffer
    \/ EmitAsmText

SpecEmitter == InitEmitter /\ [][NextEmitter]_vars

\* the characters of a directive and the blank after it
DirText(dir) ==
    CASE dir = ".set" -> <<".", "s", "e", "t", " ">>
      [] dir = ".label" -> <<".", "l", "a", "b", "e", "l", " ">>
      [] dir = ".alloc" -> <<".", "a", "l", "l", "o", "c", " ">>
      [] OTHER -> <<>>

\* the string one emitter method appends
ChunkText(chunk) ==
    (IF chunk.nl THEN <<"\n">> ELSE <<>>) \o DirText(chunk.dir) \o chunk.a
        \o (IF chunk.dir = ".set" THEN <<" ">> \o chunk.b ELSE <<>>)

RECURSIVE StreamText(_)
\* what a stream holds after its preamble (which ends with a newline)
StreamText(chunks) ==
    IF chunks = <<>> THEN <<>> ELSE ChunkText(Head(chunks)) \o StreamText(Tail(chunks))

\* number of non-empty lines of a text that starts at the beginning of a line
LineCount(text) ==
    Cardinality({i \in DOMAIN text :
                    text[i] # "\n" /\ (i = 1 \/ text[i - 1] = "\n")})

\* C17: after any sequence of emitter calls every `.set` entry, data label,
\* allocation, code label and asm text stands on a line of its own: each
\* stream has as many lines after its preamble as entries were appended.
C17_OneEntryPerLine ==
    /\ LineCount(StreamText(emitter.constants)) = Len(emitter.constants)
    /\ LineCount(StreamText(emitter.data_section)) = Len(emitter.data_section)
    /\ LineCount(StreamText(emitter.text_section)) = Len(emitter.text_section)

\* C18: the current scope is never missing: a `}` processed while the current
\* scope is the root scope is rejected with a parser error and does not pop it.
C18_ScopeNeverMissing ==
    [][(status = "running")
       => /\ scopes' # <<>>
          /\ (stmt'.kind = "close" /\ AtRoot)
             => (status' \in ParserErrors /\ scopes' = scopes)]_vars

(***************************************************************************)
(* The parser on statements whose first token has no case in the `match`   *)
(* of Parser.parse, among function declarations and blocks.                *)
(***************************************************************************)
\* a number, an operator, a parenthesis, a comma, a type name, a string
\* literal and a semicolon; the statement's own `;` follows the text
StrayTexts == {<<"5">>, <<"+">>, <<"(">>, <<",">>, BYTE_TYPE, <<"\"", "n", "\"">>, <<";">>}

Stray ==
    \E text \in StrayTexts :
        /\ CanFeed(MaxStmts)
        /\ Feed(Stmt("stray", <<>>, <<>>, <<>>, text))

NextStray ==
    \/ Stray
    \/ Function
    \/ NewScope
    \/ EndOfFile

SpecStray == Init /\ [][NextStray]_vars

\* C19: a statement whose first token has no case in the dispatch of
\* Parser.parse (here a `;` on its own) is rejected with the unexpected-token
\* parser error and changes neither scope, signature nor emitter.
C19_UndispatchedRejected ==
    [][(status = "running" /\ stmt'.kind = "stray")
       => /\ status' = "unexpected_token"
          /\ scopes' = scopes
          /\ signature' = signature
          /\ sigs' = sigs
          /\ emitter' = emitter]_vars

IsEndLabel(chunk) ==
    /\ chunk.dir = ".label"
    /\ Len(chunk.a) >= Len(END_PREFIX)
    /\ SubSeq(chunk.a, 1, Len(END_PREFIX)) = END_PREFIX

RECURSIVE WellNested(_, _)
\* the start and end labels of chunks close the scope names of open (innermost
\* last) and then form a balanced sequence in which every end label carries
\* the name of the most recent unmatched start label
WellNested(chunks, open) ==
    IF chunks = <<>> THEN open = <<>>
    ELSE IF IsStartLabel(Head(chunks))
    THEN WellNested(Tail(chunks), Append(open, Drop(Head(chunks).a, Len(START_PREFIX))))
    ELSE IF IsEndLabel(Head(chunks))
    THEN /\ open # <<>>
         /\ open[Len(open)] = Drop(Head(chunks).a, Len(END_PREFIX))
         /\ WellNested(Tail(chunks), SubSeq(open, 1, Len(open) - 1))
    ELSE WellNested(Tail(chunks), open)

LastChunk(chunks) == chunks[Len(chunks)]

\* C20: every `{` appends the start label of the scope it creates, every `}`
\* appends the end label of the current scope and makes its parent current,
\* and in an accepted program the start and end labels of the code stream are
\* balanced, each end label carrying the name of the most recent unmatched
\* start label.
C20_LabelsWellNested ==
    [][/\ (status = "running" /\ stmt'.kind = "open" /\ status' = "running")
          => /\ Len(scopes') = Len(scopes) + 1
             /\ LastChunk(emitter'.text_section).dir = ".label"
             /\ LastChunk(emitter'.text_section).a
                    = START_PREFIX \o scopes'[Len(scopes')].name
       /\ (status = "running" /\ stmt'.kind = "close" /\ status' = "running")
          => /\ scopes # <<>>
             /\ scopes' = SubSeq(scopes, 1, Len(scopes) - 1)
             /\ LastChunk(emitter'.text_section).dir = ".label"
             /\ LastChunk(emitter'.text_section).a
                    = END_PREFIX \o scopes[Len(scopes)].name
       /\ status' = "accepted" => WellNested(emitter'.text_section, <<>>)]_vars

====
